---------------------------- MODULE Spec2Model ----------------------------
(***************************************************************************)
(* A model of the text operations of mangos.h (class mangos::string):      *)
(* split, join (vector and array overloads) and trim.                      *)
(*                                                                         *)
(* A text (std::string) is a sequence of single-byte character codes.      *)
(* Positions are 0-based, as in the source; SubSeq is 1-based, so the      *)
(* helpers below shift by one.  One behaviour of the model is one call of  *)
(* one operation: the call is drawn by a Call* action, split's while loop  *)
(* runs one iteration per SplitStep, and the call ends in a *_done state,  *)
(* in split_aborted (a REQUIRES assertion failed) or in *_threw            *)
(* (std::string::substr threw std::out_of_range).                          *)
(***************************************************************************)
EXTENDS Integers, Sequences, FiniteSets

VARIABLES pc, text, del, multiple, str, tokens, iters, list, sep, out

vars == <<pc, text, del, multiple, str, tokens, iters, list, sep, out>>

---------------------------------------------------------------------------
(* Bounds of the model *)

\* longest text handed to split
MaxLen == 4
\* longest text handed to trim
MaxTrimLen == 5
\* longest delimiter handed to split, longest separator handed to join
MaxDelLen == 2
\* longest token list handed to join
MaxTokens == 3
\* longest token of a list handed to join
MaxTokLen == 1

\* 'a', 'b', ','
SplitAlphabet == {97, 98, 44}
\* ' ', '\t', '\n', '\r', 'a', 'b'
TrimAlphabet == {32, 9, 10, 13, 97, 98}
\* 'a', ','
JoinAlphabet == {97, 44}

SeqsUpTo(S, n) == UNION {[1..k -> S] : k \in 0..n}

---------------------------------------------------------------------------
(* std::string primitives *)

\* __WHITESPACE__ " \t\n\r"
WHITESPACE == <<32, 9, 10, 13>>

\* std::string::npos as the code sees it: stored in `int found` and compared
\* with -1 in split; in trim, the size_t value above every length, with
\* npos + 1 wrapping to 0.  Positions of texts within the bounds fit in int,
\* so the narrowing of a found position to int changes nothing here.
Npos == -1

Chars(s) == {s[i] : i \in DOMAIN s}

Min(S) == CHOOSE x \in S : \A y \in S : x <= y

Max(S) == CHOOSE x \in S : \A y \in S : x >= y

\* s.find(d): the first position where d occurs as a contiguous substring
find(s, d) ==
    LET hits == {p \in 0..(Len(s) - Len(d)) : SubSeq(s, p + 1, p + Len(d)) = d}
    IN  IF hits = {} THEN Npos ELSE Min(hits)

\* s.find_first_of(d): the first position holding any character of d
find_first_of(s, d) ==
    LET hits == {p \in 0..(Len(s) - 1) : s[p + 1] \in Chars(d)}
    IN  IF hits = {} THEN Npos ELSE Min(hits)

\* s.find_first_not_of(d)
find_first_not_of(s, d) ==
    LET hits == {p \in 0..(Len(s) - 1) : s[p + 1] \notin Chars(d)}
    IN  IF hits = {} THEN Npos ELSE Min(hits)

\* s.find_last_not_of(d)
find_last_not_of(s, d) ==
    LET hits == {p \in 0..(Len(s) - 1) : s[p + 1] \notin Chars(d)}
    IN  IF hits = {} THEN Npos ELSE Max(hits)

\* s.substr(pos, n) throws std::out_of_range when pos > s.size()
SubstrThrows(s, pos) == pos = Npos \/ pos > Len(s)

\* s.substr(pos): the suffix from pos (pos <= s.size())
substr_from(s, pos) == SubSeq(s, pos + 1, Len(s))

\* s.substr(0, n): the first n characters, or all of s when n exceeds its size
substr_prefix(s, n) == SubSeq(s, 1, IF n < Len(s) THEN n ELSE Len(s))

---------------------------------------------------------------------------
(* split *)

RequiresTextOnly(s, d) == Len(s) > 0

\* REQUIRES(str.length() > 0); REQUIRES(del.length() > 0);
SplitRequires(s, d) == Len(s) > 0 /\ Len(d) > 0

\* int found = multiple ? str.find_first_of(del) : str.find(del);
SplitFound(s, d, m) == IF m THEN find_first_of(s, d) ELSE find(s, d)

TokenSwappedArms(s, found) == IF found = -1 THEN <<>> ELSE substr_prefix(s, found)

TokenOffByOne(s, found) == IF found = -1 THEN s ELSE substr_prefix(s, found + 1)

\* std::string token = found == -1 ? str : str.substr(0, found);
SplitToken(s, found) == IF found = -1 THEN s ELSE substr_prefix(s, found)

AdvanceDelLength(d, m) == Len(d)

AdvanceOne(d, m) == 1

AdvanceZeroInSetMode(d, m) == IF m THEN 0 ELSE Len(d)

\* multiple ?: del.length()   (true converts to 1)
Advance(d, m) == IF m THEN 1 ELSE Len(d)

KeepAlways(token) == TRUE

\* if(token.length())
KeepToken(token) == Len(token) > 0

\* split(str, del, multiple): entry, the two REQUIRES
CallSplit ==
    /\ pc = "idle"
    /\ \E t \in SeqsUpTo(SplitAlphabet, MaxLen),
          d \in SeqsUpTo(SplitAlphabet, MaxDelLen),
          m \in BOOLEAN :
          /\ text' = t
          /\ del' = d
          /\ multiple' = m
          /\ str' = t
          /\ pc' = IF SplitRequires(t, d) THEN "split_loop" ELSE "split_aborted"
    /\ tokens' = <<>>
    /\ iters' = 0
    /\ UNCHANGED <<list, sep, out>>

\* one iteration of while(str.length() > 0).  iters counts the iterations run
\* so far; the guard on it only keeps the state space finite should the loop
\* fail to shorten str (it never binds while every iteration consumes a
\* character).  str.substr(found + ...) throws when its position is past
\* the end of str.
SplitStep ==
    /\ pc = "split_loop"
    /\ Len(str) > 0
    /\ iters <= MaxLen
    /\ LET found == SplitFound(str, del, multiple)
           token == SplitToken(str, found)
           next  == found + Advance(del, multiple)
       IN  IF found # -1 /\ SubstrThrows(str, next)
           THEN /\ pc' = "split_threw"
                /\ UNCHANGED <<str, tokens>>
           ELSE /\ pc' = "split_loop"
                /\ str' = IF found = -1 THEN <<>> ELSE substr_from(str, next)
                /\ tokens' = IF KeepToken(token) THEN Append(tokens, token) ELSE tokens
    /\ iters' = iters + 1
    /\ UNCHANGED <<text, del, multiple, list, sep, out>>

\* the loop condition fails: return tokens
SplitReturn ==
    /\ pc = "split_loop"
    /\ Len(str) = 0
    /\ pc' = "split_done"
    /\ UNCHANGED <<text, del, multiple, str, tokens, iters, list, sep, out>>

---------------------------------------------------------------------------
(* join *)

JoinSepAlways(n, size, s) == s

\* (n + 1 < list.size() ? sep : "")
JoinSep(n, size, s) == IF n + 1 < size THEN s ELSE <<>>

\* for(size_t n = 0; n < size; n++) joined += l[n] + (n + 1 < size ? sep : "");
RECURSIVE join_loop(_, _, _, _, _)
join_loop(l, size, s, n, joined) ==
    IF n < size
    THEN join_loop(l, size, s, n + 1, joined \o l[n + 1] \o JoinSep(n, size, s))
    ELSE joined

\* join(std::vector<std::string> list, std::string sep)
join(l, s) == join_loop(l, Len(l), s, 0, <<>>)

\* join<size>(std::string arr[size], std::string sep)
join_arr(arr, size, s) == join_loop(arr, size, s, 0, <<>>)

JoinInputs == SeqsUpTo(SeqsUpTo(JoinAlphabet, MaxTokLen), MaxTokens)

CallJoin ==
    /\ pc = "idle"
    /\ \E l \in JoinInputs, s \in SeqsUpTo(JoinAlphabet, MaxDelLen) :
          /\ list' = l
          /\ sep' = s
          /\ out' = join(l, s)
    /\ pc' = "join_done"
    /\ UNCHANGED <<text, del, multiple, str, tokens, iters>>

CallJoinArr ==
    /\ pc = "idle"
    /\ \E l \in JoinInputs, s \in SeqsUpTo(JoinAlphabet, MaxDelLen) :
          /\ list' = l
          /\ sep' = s
          /\ out' = join_arr(l, Len(l), s)
    /\ pc' = "join_arr_done"
    /\ UNCHANGED <<text, del, multiple, str, tokens, iters>>

---------------------------------------------------------------------------
(* trim *)

\* str.find_first_not_of(__WHITESPACE__)
TrimStart(s) == find_first_not_of(s, WHITESPACE)

TrimEndNoPlusOne(s) == find_last_not_of(s, WHITESPACE)

\* str.find_last_not_of(__WHITESPACE__) + 1
TrimEnd(s) == find_last_not_of(s, WHITESPACE) + 1

\* trim(str): two substr calls; the first throws when its position is npos
CallTrim ==
    /\ pc = "idle"
    /\ \E t \in SeqsUpTo(TrimAlphabet, MaxTrimLen) :
          /\ text' = t
          /\ IF SubstrThrows(t, TrimStart(t))
             THEN /\ pc' = "trim_threw"
                  /\ out' = <<>>
             ELSE LET s1 == substr_from(t, TrimStart(t))
                  IN  /\ pc' = "trim_done"
                      /\ out' = substr_prefix(s1, TrimEnd(s1))
    /\ UNCHANGED <<del, multiple, str, tokens, iters, list, sep>>

---------------------------------------------------------------------------
(* Specifications *)

Init ==
    /\ pc = "idle"
    /\ text = <<>>
    /\ del = <<>>
    /\ multiple = FALSE
    /\ str = <<>>
    /\ tokens = <<>>
    /\ iters = 0
    /\ list = <<>>
    /\ sep = <<>>
    /\ out = <<>>

Next ==
    \/ CallSplit
    \/ SplitStep
    \/ SplitReturn
    \/ CallJoin
    \/ CallJoinArr
    \/ CallTrim

Spec == Init /\ [][Next]_vars

\* split is straight-line sequential code: once called, its loop keeps running
FairSpec == Spec /\ WF_vars(SplitStep) /\ WF_vars(SplitReturn)

---------------------------------------------------------------------------
(* Properties *)

InSplit == pc \in {"split_loop", "split_done", "split_aborted", "split_threw"}

InTrim == pc \in {"trim_done", "trim_threw"}

InJoin == pc \in {"join_done", "join_arr_done"}

IsWhitespace(c) == c \in {32, 9, 10, 13}

\* d occurs in t as a contiguous substring starting at (1-based) index p
OccursAt(t, d, p) ==
    /\ p >= 1
    /\ p + Len(d) - 1 <= Len(t)
    /\ \A k \in 1..Len(d) : t[p + k - 1] = d[k]

\* the delimiter is present in t, per mode
DelimiterIn(t, d, m) ==
    IF m THEN \E i \in DOMAIN t : \E k \in DOMAIN d : t[i] = d[k]
         ELSE \E p \in 1..Len(t) : OccursAt(t, d, p)

\* t is nothing but delimiters, per mode
AllDelimiters(t, d, m) ==
    IF m THEN \A i \in DOMAIN t : \E k \in DOMAIN d : t[i] = d[k]
         ELSE /\ Len(t) % Len(d) = 0
              /\ \A b \in 0..((Len(t) \div Len(d)) - 1) : OccursAt(t, d, b * Len(d) + 1)

\* t has no leading, no trailing and no consecutive occurrence of d
WellFormed(t, d) ==
    /\ ~OccursAt(t, d, 1)
    /\ ~OccursAt(t, d, Len(t) - Len(d) + 1)
    /\ ~\E p \in 1..Len(t) : OccursAt(t, d, p) /\ OccursAt(t, d, p + Len(d))

\* the maximal runs of characters of t outside the set S, left to right
RunStarts(t, S) == {i \in DOMAIN t : t[i] \notin S /\ (i = 1 \/ t[i - 1] \in S)}

RunEnd(t, S, i) == Min({j \in i..Len(t) : j = Len(t) \/ t[j + 1] \in S})

RECURSIVE RunsFrom(_, _, _)
RunsFrom(t, S, starts) ==
    IF starts = {} THEN <<>>
    ELSE LET i == Min(starts)
         IN  <<SubSeq(t, i, RunEnd(t, S, i))>> \o RunsFrom(t, S, starts \ {i})

MaximalRuns(t, S) == RunsFrom(t, S, RunStarts(t, S))

\* the tokens with one separator between each adjacent pair
RECURSIVE Interleave(_, _)
Interleave(l, s) ==
    IF l = <<>> THEN <<>>
    ELSE IF Len(l) = 1 THEN l[1]
    ELSE l[1] \o s \o Interleave(Tail(l), s)

RECURSIVE TotalLen(_)
TotalLen(l) == IF l = <<>> THEN 0 ELSE Len(l[1]) + TotalLen(Tail(l))

\* C1: trim of a text that is empty or all whitespace ends normally and
\* returns the empty text; it never fails with an out-of-range slice.
C1_TrimBlankIsEmpty ==
    (InTrim /\ \A i \in DOMAIN text : IsWhitespace(text[i]))
        => (pc = "trim_done" /\ out = <<>>)

\* C2: for a non-empty text and a non-empty delimiter, in both modes, split
\* never emits an empty token, and a text made only of delimiters yields the
\* empty token list.
C2_NoEmptyToken ==
    (InSplit /\ Len(text) > 0 /\ Len(del) > 0)
        => /\ \A i \in DOMAIN tokens : Len(tokens[i]) > 0
           /\ (pc = "split_done" /\ AllDelimiters(text, del, multiple)) => tokens = <<>>

C2_Witness ==
    /\ pc = "split_done"
    /\ ~multiple
    /\ OccursAt(text, del, 1)
    /\ OccursAt(text, del, Len(text) - Len(del) + 1)
    /\ \E p \in 1..Len(text) : OccursAt(text, del, p) /\ OccursAt(text, del, p + Len(del))
    /\ Len(tokens) = 1

\* C3: split called with an empty text or an empty delimiter fails with an
\* assertion before any tokenization step runs and never returns a token list.
C3_EmptyArgumentAborts ==
    (InSplit /\ (Len(text) = 0 \/ Len(del) = 0))
        => (pc = "split_aborted" /\ iters = 0 /\ tokens = <<>>)

C3_Witness == pc = "split_aborted" /\ Len(text) > 0 /\ Len(del) = 0

\* C4: round trip: for a non-empty text and a non-empty delimiter d with no
\* leading, trailing or consecutive occurrence of d in the text,
\* join(split(text, d, false), d) equals the text.
C4_RoundTrip ==
    (pc = "split_done" /\ ~multiple /\ WellFormed(text, del))
        => join(tokens, del) = text

C4_Witness ==
    /\ pc = "split_done"
    /\ ~multiple
    /\ WellFormed(text, del)
    /\ Len(del) = 2
    /\ Len(tokens) = 2

\* C5: in set mode split returns, in left-to-right order, exactly the maximal
\* runs of consecutive characters of the text that are not characters of the
\* delimiter, whatever the delimiter's length.
C5_SetModeMaximalRuns ==
    (pc = "split_done" /\ multiple) => tokens = MaximalRuns(text, Chars(del))

C5_Witness ==
    /\ pc = "split_done"
    /\ multiple
    /\ Len(del) = 2
    /\ del[1] # del[2]
    /\ \E i \in 1..(Len(text) - 1) : text[i] = del[2] /\ text[i + 1] = del[1]
    /\ Len(tokens) = 2

\* C6: join concatenates the tokens in order with exactly one separator
\* between each adjacent pair, none before the first and none after the last:
\* k >= 1 tokens get k-1 separators, a single token is returned unchanged and
\* the empty list yields the empty text (both overloads).
C6_JoinInterleaves ==
    InJoin
        => /\ out = Interleave(list, sep)
           /\ Len(list) >= 1 => Len(out) = TotalLen(list) + (Len(list) - 1) * Len(sep)
           /\ Len(list) = 1 => out = list[1]
           /\ Len(list) = 0 => out = <<>>

C6_Witness ==
    /\ pc = "join_done"
    /\ Len(list) = 3
    /\ Len(sep) = 2
    /\ Len(out) = TotalLen(list) + 4
    /\ TotalLen(list) >= 2

\* C7: for a non-empty text in which the delimiter does not occur (as a
\* substring in literal mode, none of its characters in set mode), split
\* returns the one-element list holding the whole text.
C7_AbsentDelimiterWholeText ==
    (pc = "split_done" /\ ~DelimiterIn(text, del, multiple)) => tokens = <<text>>

C7_Witness ==
    /\ pc = "split_done"
    /\ ~multiple
    /\ Len(del) = 2
    /\ ~DelimiterIn(text, del, FALSE)
    /\ DelimiterIn(text, del, TRUE)
    /\ tokens = <<text>>

\* C8: for a text with at least one non-whitespace character, trim returns
\* the inclusive slice from the first to the last non-whitespace index: the
\* result neither starts nor ends with whitespace and the interior is kept.
C8_TrimSlice ==
    (InTrim /\ \E i \in DOMAIN text : ~IsWhitespace(text[i]))
        => LET nonws == {i \in DOMAIN text : ~IsWhitespace(text[i])}
           IN  /\ pc = "trim_done"
               /\ out = SubSeq(text, Min(nonws), Max(nonws))
               /\ ~IsWhitespace(out[1])
               /\ ~IsWhitespace(out[Len(out)])

C8_Witness ==
    /\ pc = "trim_done"
    /\ Len(text) = 5
    /\ IsWhitespace(text[1])
    /\ IsWhitespace(text[5])
    /\ Len(out) = 3
    /\ IsWhitespace(out[2])

\* C9: split terminates for every non-empty text and non-empty delimiter in
\* both modes: each loop iteration strictly shortens the remaining suffix,
\* the loop runs at most length(text) iterations, and split then returns.
C9_SplitTerminates ==
    /\ [][(pc = "split_loop" /\ pc' = "split_loop") => Len(str') < Len(str)]_vars
    /\ [](InSplit => iters <= Len(text))
    /\ (pc = "split_loop") ~> (pc = "split_done")

C9_Witness ==
    /\ pc = "split_done"
    /\ Len(text) >= 3
    /\ iters = Len(text)

\* C10: no token returned by split contains the delimiter: in literal mode
\* no token has it as a contiguous substring (also when its occurrences
\* overlap in the text), in set mode no token holds any of its characters.
C10_TokensHoldNoDelimiter ==
    (InSplit /\ Len(text) > 0 /\ Len(del) > 0)
        => \A i \in DOMAIN tokens : ~DelimiterIn(tokens[i], del, multiple)

C10_Witness ==
    /\ pc = "split_done"
    /\ ~multiple
    /\ Len(del) = 2
    /\ del[1] = del[2]
    /\ OccursAt(text, del, 1)
    /\ OccursAt(text, del, 2)
    /\ Len(tokens) = 1

=============================================================================
